---------------------------- MODULE Spec2Model ----------------------------
(***************************************************************************)
(* Model of cjt_helper_update.py, the CJT Helper native-messaging host:    *)
(* the framed stdin/stdout channel, the session loop of main(), the        *)
(* single-slot background update thread, and the download / clean /        *)
(* extract pipeline with its cancellation checkpoints.                     *)
(*                                                                         *)
(* Text is modelled as sequences of code points, the wire as sequences of  *)
(* bytes (0..255).                                                         *)
(***************************************************************************)
EXTENDS Integers, Sequences, FiniteSets, TLC

(***************************************************************************)
(* Bounds of the model.                                                    *)
(***************************************************************************)
\* number of writes the host performs on the helper's stdin
MaxCmds == 2
\* number of frames written to the channel of the framing specification
MaxFrames == 2
\* number of full chunks of the longest download of the download specification
MaxChunks == 120

(***************************************************************************)
(* String literals of the source, as code points.                          *)
(***************************************************************************)
K_cmd == <<99, 109, 100>>  \* "cmd"
K_downloadUrl == <<100, 111, 119, 110, 108, 111, 97, 100, 85, 114, 108>>  \* "downloadUrl"
K_targetDir == <<116, 97, 114, 103, 101, 116, 68, 105, 114>>  \* "targetDir"
K_path == <<112, 97, 116, 104>>  \* "path"
S_start_update == <<115, 116, 97, 114, 116, 95, 117, 112, 100, 97, 116, 101>>  \* "start_update"
S_cancel_update == <<99, 97, 110, 99, 101, 108, 95, 117, 112, 100, 97, 116, 101>>  \* "cancel_update"
S_check_install_dir == <<99, 104, 101, 99, 107, 95, 105, 110, 115, 116, 97, 108, 108, 95, 100, 105, 114>>  \* "check_install_dir"
S_cjt_helper == <<99, 106, 116, 45, 104, 101, 108, 112, 101, 114>>  \* "cjt-helper"
S_dot_cjt_helper == <<46, 99, 106, 116, 45, 104, 101, 108, 112, 101, 114>>  \* ".cjt-helper"
S_auto_update == <<97, 117, 116, 111, 45, 117, 112, 100, 97, 116, 101>>  \* "auto-update"
S_true == <<116, 114, 117, 101>>  \* "true"
S_false == <<102, 97, 108, 115, 101>>  \* "false"
S_null == <<110, 117, 108, 108>>  \* "null"

SEP == <<47>>  \* "/"
DotDot == <<46, 46>>
Dot == <<46>>

(***************************************************************************)
(* Sequence helpers.                                                       *)
(***************************************************************************)
Drop(s, n) == SubSeq(s, n + 1, Len(s))

Take(s, n) == SubSeq(s, 1, n)

StartsWith(s, p) == Len(s) >= Len(p) /\ Take(s, Len(p)) = p

\* the concatenation of a sequence of sequences
RECURSIVE Flatten(_)
Flatten(ss) ==
    IF ss = <<>> THEN <<>>
    ELSE IF Len(ss) = 1 THEN ss[1]
    ELSE Flatten(Take(ss, Len(ss) \div 2)) \o Flatten(Drop(ss, Len(ss) \div 2))

(***************************************************************************)
(* UTF-8 (str.encode('utf-8') / bytes.decode('utf-8')), code points up to  *)
(* U+FFFF.                                                                 *)
(***************************************************************************)
Utf8Char(c) ==
    IF c < 128 THEN <<c>>
    ELSE IF c < 2048 THEN <<192 + (c \div 64), 128 + (c % 64)>>
    ELSE <<224 + (c \div 4096), 128 + ((c \div 64) % 64), 128 + (c % 64)>>

Utf8Encode(s) == Flatten([i \in 1..Len(s) |-> Utf8Char(s[i])])

IsCont(c) == c >= 128 /\ c < 192

\* the length of the character whose first byte is b[i]; 0 when it is malformed
Utf8Len(b, i) ==
    IF b[i] < 128 THEN 1
    ELSE IF b[i] >= 194 /\ b[i] < 224 /\ Len(b) >= i + 1 /\ IsCont(b[i + 1]) THEN 2
    ELSE IF b[i] >= 224 /\ b[i] < 240 /\ Len(b) >= i + 2 /\ IsCont(b[i + 1])
            /\ IsCont(b[i + 2]) /\ (b[i] > 224 \/ b[i + 1] >= 160)
            \* the surrogates U+D800..U+DFFF are no UTF-8
            /\ ~(b[i] = 237 /\ b[i + 1] >= 160) THEN 3
    ELSE 0

Utf8Point(b, i) ==
    IF Utf8Len(b, i) = 1 THEN b[i]
    ELSE IF Utf8Len(b, i) = 2 THEN (b[i] - 192) * 64 + (b[i + 1] - 128)
    ELSE (b[i] - 224) * 4096 + (b[i + 1] - 128) * 64 + (b[i + 2] - 128)

\* [ok, s]: ok = FALSE stands for UnicodeDecodeError
Utf8Decode(b) ==
    LET starts == {i \in 1..Len(b) : ~IsCont(b[i])}
        wellformed ==
            /\ b = <<>> \/ 1 \in starts
            /\ \A i \in starts :
                  /\ Utf8Len(b, i) > 0
                  /\ i + Utf8Len(b, i) = Len(b) + 1 \/ i + Utf8Len(b, i) \in starts
    IN  IF wellformed
        THEN [ok |-> TRUE,
              s |-> Flatten([i \in 1..Len(b) |->
                                IF i \in starts THEN <<Utf8Point(b, i)>> ELSE <<>>])]
        ELSE [ok |-> FALSE, s |-> <<>>]

(***************************************************************************)
(* JSON values: null, booleans, integers, strings and objects (a sequence  *)
(* of <<key, value>> pairs, a later pair for a key overriding an earlier   *)
(* one, as in a Python dict built by json.loads).                          *)
(***************************************************************************)
JNull == [t |-> "null", b |-> FALSE, n |-> 0, s |-> <<>>, m |-> <<>>]

JBool(x) == [t |-> "bool", b |-> x, n |-> 0, s |-> <<>>, m |-> <<>>]

JInt(x) == [t |-> "int", b |-> FALSE, n |-> x, s |-> <<>>, m |-> <<>>]

JStr(x) == [t |-> "str", b |-> FALSE, n |-> 0, s |-> x, m |-> <<>>]

JObj(x) == [t |-> "obj", b |-> FALSE, n |-> 0, s |-> <<>>, m |-> x]

\* Python truthiness of a value (None, False, 0, '' and {} are falsy)
Truthy(v) ==
    CASE v.t = "null" -> FALSE
      [] v.t = "bool" -> v.b
      [] v.t = "int" -> v.n # 0
      [] v.t = "str" -> v.s # <<>>
      [] OTHER -> v.m # <<>>

\* dict.get(key) on a JSON object: the last pair with that key, else None
RECURSIVE DictGet(_, _)
DictGet(m, k) ==
    IF m = <<>> THEN JNull
    ELSE IF m[Len(m)][1] = k THEN m[Len(m)][2]
    ELSE DictGet(Take(m, Len(m) - 1), k)

(***************************************************************************)
(* json.dumps(payload, ensure_ascii=False): default separators ', ' and    *)
(* ': ', quotes, backslashes and control characters escaped, other text    *)
(* left as it is.                                                          *)
(***************************************************************************)
HexDigit(n) == IF n < 10 THEN 48 + n ELSE 87 + n

\* json.encoder.ESCAPE_DCT
DumpChar(c) ==
    CASE c \in {34, 92} -> <<92, c>>
      [] c = 10 -> <<92, 110>>
      [] c = 13 -> <<92, 114>>
      [] c = 9 -> <<92, 116>>
      [] c = 8 -> <<92, 98>>
      [] c = 12 -> <<92, 102>>
      [] c < 32 /\ c \notin {8, 9, 10, 12, 13} ->
            <<92, 117, 48, 48, HexDigit(c \div 16), HexDigit(c % 16)>>
      [] OTHER -> <<c>>

RECURSIVE DumpDigits(_)
DumpDigits(n) == IF n < 10 THEN <<48 + n>> ELSE DumpDigits(n \div 10) \o <<48 + (n % 10)>>

DumpChars(s) == Flatten([i \in 1..Len(s) |-> DumpChar(s[i])])

DumpString(s) == <<34>> \o DumpChars(s) \o <<34>>

RECURSIVE JsonDumps(_), DumpMembers(_)
JsonDumps(v) ==
    CASE v.t = "null" -> S_null
      [] v.t = "bool" -> IF v.b THEN S_true ELSE S_false
      [] v.t = "int" -> IF v.n < 0 THEN <<45>> \o DumpDigits(0 - v.n) ELSE DumpDigits(v.n)
      [] v.t = "str" -> DumpString(v.s)
      [] OTHER -> <<123>> \o DumpMembers(v.m) \o <<125>>

DumpMembers(m) ==
    IF m = <<>> THEN <<>>
    ELSE DumpString(m[1][1]) \o <<58, 32>> \o JsonDumps(m[1][2])
         \o (IF Len(m) > 1 THEN <<44, 32>> \o DumpMembers(Tail(m)) ELSE <<>>)

(***************************************************************************)
(* json.loads(text): [ok, v]; ok = FALSE stands for JSONDecodeError.       *)
(* Parse results are [ok, v, i] with i the index after the value.          *)
(***************************************************************************)
ParseFail == [ok |-> FALSE, v |-> JNull, i |-> 0]

RECURSIVE SkipWs(_, _)
SkipWs(s, i) == IF i <= Len(s) /\ s[i] \in {32, 9, 10, 13} THEN SkipWs(s, i + 1) ELSE i

Min(S) == CHOOSE x \in S : \A y \in S : x <= y

\* the number of backslashes that end right before s[k], counted from s[i] on
RECURSIVE BackslashRun(_, _, _)
BackslashRun(s, i, k) == IF k - 1 >= i /\ s[k - 1] = 92 THEN 1 + BackslashRun(s, i, k - 1) ELSE 0

\* the value of a hexadecimal digit, -1 for any other character
HexVal(c) ==
    IF c >= 48 /\ c <= 57 THEN c - 48
    ELSE IF c >= 97 /\ c <= 102 THEN c - 87
    ELSE IF c >= 65 /\ c <= 70 THEN c - 55
    ELSE 0 - 1

\* the character an escape letter stands for (json.decoder.BACKSLASH)
Unescape(c) ==
    CASE c = 98 -> 8
      [] c = 102 -> 12
      [] c = 110 -> 10
      [] c = 114 -> 13
      [] c = 116 -> 9
      [] OTHER -> c

\* a string literal; s[i] is the character after the opening quote.  The
\* escapes \" \\ \/ \b \f \n \r \t and \uXXXX are read (two \u escapes of a
\* surrogate pair are not joined: text is kept to U+FFFF); any other escape,
\* and a control character, is an error
ParseChars(s, i) ==
    LET closing == {j \in i..Len(s) : s[j] = 34 /\ BackslashRun(s, i, j) % 2 = 0}
        j == Min(closing)
        escaped(k) == BackslashRun(s, i, k) % 2 = 1
        escaping(k) == s[k] = 92 /\ ~escaped(k)
        uesc(k) == s[k] = 117 /\ escaped(k)
        inhex(k) == \E d \in 1..4 : k - d >= i /\ uesc(k - d)
        hex(k) == 4096 * HexVal(s[k + 1]) + 256 * HexVal(s[k + 2])
                  + 16 * HexVal(s[k + 3]) + HexVal(s[k + 4])
        char(k) ==
            IF escaping(k) \/ inhex(k) THEN <<>>
            ELSE IF uesc(k) THEN <<hex(k)>>
            ELSE IF escaped(k) THEN <<Unescape(s[k])>>
            ELSE <<s[k]>>
    IN  IF closing = {} THEN ParseFail
        ELSE IF \E k \in i..(j - 1) :
                    \/ s[k] < 32
                    \/ escaped(k) /\ s[k] \notin {34, 92, 47, 98, 102, 110, 114, 116, 117}
                    \/ uesc(k) /\ (k + 4 > j - 1 \/ \E d \in 1..4 : HexVal(s[k + d]) < 0)
             THEN ParseFail
        ELSE [ok |-> TRUE,
              v |-> JStr(Flatten([n \in 1..(j - i) |-> char(i + n - 1)])),
              i |-> j + 1]

RECURSIVE ParseDigits(_, _, _)
ParseDigits(s, i, acc) ==
    IF i <= Len(s) /\ s[i] >= 48 /\ s[i] <= 57
    THEN ParseDigits(s, i + 1, acc * 10 + (s[i] - 48))
    ELSE [ok |-> TRUE, v |-> JInt(acc), i |-> i]

ParseNumber(s, i) ==
    LET neg == s[i] = 45
        j == IF neg THEN i + 1 ELSE i
    IN  IF j > Len(s) \/ s[j] < 48 \/ s[j] > 57 THEN ParseFail
        ELSE IF s[j] = 48 THEN [ok |-> TRUE, v |-> JInt(0), i |-> j + 1]
        ELSE LET r == ParseDigits(s, j, 0)
             IN  IF neg THEN [r EXCEPT !.v = JInt(0 - r.v.n)] ELSE r

ParseLiteral(s, i, word, v) ==
    IF StartsWith(Drop(s, i - 1), word) THEN [ok |-> TRUE, v |-> v, i |-> i + Len(word)]
    ELSE ParseFail

RECURSIVE ParseValue(_, _), ParseMembers(_, _, _), MemberKey(_, _, _),
          MemberColon(_, _, _, _), MemberValue(_, _, _, _), MemberEnd(_, _, _)
ParseValue(s, i0) ==
    LET i == SkipWs(s, i0)
    IN  IF i > Len(s) THEN ParseFail
        ELSE CASE s[i] = 123 ->
                    LET j == SkipWs(s, i + 1)
                    IN  IF j <= Len(s) /\ s[j] = 125
                        THEN [ok |-> TRUE, v |-> JObj(<<>>), i |-> j + 1]
                        ELSE ParseMembers(s, j, <<>>)
               [] s[i] = 34 -> ParseChars(s, i + 1)
               [] s[i] = 45 \/ (s[i] >= 48 /\ s[i] <= 57) -> ParseNumber(s, i)
               [] s[i] = 116 -> ParseLiteral(s, i, S_true, JBool(TRUE))
               [] s[i] = 102 -> ParseLiteral(s, i, S_false, JBool(FALSE))
               [] s[i] = 110 -> ParseLiteral(s, i, S_null, JNull)
               [] OTHER -> ParseFail

\* the members of an object, parsed one stage at a time; acc holds the pairs
\* read so far.  s[i] is where the next "key" is expected
ParseMembers(s, i, acc) ==
    IF i > Len(s) \/ s[i] # 34 THEN ParseFail
    ELSE MemberKey(s, ParseChars(s, i + 1), acc)

\* k is the parse of the key
MemberKey(s, k, acc) ==
    IF ~k.ok THEN ParseFail ELSE MemberColon(s, k.v.s, SkipWs(s, k.i), acc)

\* s[c] is where the colon is expected
MemberColon(s, key, c, acc) ==
    IF c > Len(s) \/ s[c] # 58 THEN ParseFail
    ELSE MemberValue(s, key, ParseValue(s, c + 1), acc)

\* v is the parse of the value
MemberValue(s, key, v, acc) ==
    IF ~v.ok THEN ParseFail
    ELSE MemberEnd(s, SkipWs(s, v.i), Append(acc, <<key, v.v>>))

\* s[e] is where "," or "}" is expected
MemberEnd(s, e, acc) ==
    IF e > Len(s) THEN ParseFail
    ELSE IF s[e] = 125 THEN [ok |-> TRUE, v |-> JObj(acc), i |-> e + 1]
    ELSE IF s[e] = 44 THEN ParseMembers(s, SkipWs(s, e + 1), acc)
    ELSE ParseFail

JsonLoads(s) ==
    LET r == ParseValue(s, 1)
    IN  IF r.ok /\ SkipWs(s, r.i) > Len(s) THEN [ok |-> TRUE, v |-> r.v]
        ELSE [ok |-> FALSE, v |-> JNull]

(***************************************************************************)
(* struct.pack('<I', n) and struct.unpack('<I', raw)[0].                   *)
(***************************************************************************)
\* the length packed most significant byte first
PackBE32(n) ==
    <<(n \div 16777216) % 256, (n \div 65536) % 256, (n \div 256) % 256, n % 256>>

PackLE32(n) ==
    <<n % 256, (n \div 256) % 256, (n \div 65536) % 256, (n \div 16777216) % 256>>

UnpackLE32(raw) == raw[1] + 256 * raw[2] + 65536 * raw[3] + 16777216 * raw[4]

\* the bytes send_message writes for a payload: the length prefix, then the data
FrameData(payload) == Utf8Encode(JsonDumps(payload))

FrameBytes(payload) == PackLE32(Len(FrameData(payload))) \o FrameData(payload)

(***************************************************************************)
(* read_message() on the bytes `input` holds at end of stream (or the      *)
(* bytes available once both reads are satisfied).  The result is          *)
(*   kind = "return" the function returned v (JNull stands for None),     *)
(*   kind = "raise"  an exception left the function                        *)
(* and rest is what remains unread.                                        *)
(***************************************************************************)
ReadResult(kind, v, rest) == [kind |-> kind, v |-> v, rest |-> rest]

read_message(input) ==
    LET raw_length == Take(input, IF Len(input) < 4 THEN Len(input) ELSE 4)
        after == Drop(input, Len(raw_length))
    IN  IF raw_length = <<>> THEN ReadResult("return", JNull, after)
        \* struct.unpack requires a buffer of exactly 4 bytes
        ELSE IF Len(raw_length) < 4 THEN ReadResult("raise", JNull, after)
        ELSE LET message_length == UnpackLE32(raw_length)
                 message_data ==
                     Take(after, IF Len(after) < message_length THEN Len(after)
                                 ELSE message_length)
                 rest == Drop(after, Len(message_data))
                 text == Utf8Decode(message_data)
                 parsed == IF text.ok THEN JsonLoads(text.s) ELSE [ok |-> FALSE, v |-> JNull]
             IN  IF message_data = <<>> THEN ReadResult("return", JNull, rest)
                 ELSE IF ~parsed.ok THEN ReadResult("raise", JNull, rest)
                 ELSE ReadResult("return", parsed.v, rest)

\* whether read_message's two blocking reads can complete on `input`
ReadReady(input, closed) ==
    \/ closed
    \/ Len(input) >= 4 /\ Len(input) >= 4 + UnpackLE32(Take(input, 4))

(***************************************************************************)
(* posixpath: the path functions the source calls.                         *)
(***************************************************************************)
\* the environment of the process: HOME, and the working directory
HOME_DIR == <<47, 104>>  \* "/h"

CWD == <<47, 120>>  \* "/x"

ENV_HOME == <<72, 79, 77, 69>>  \* "HOME"

IsAbs(p) == p # <<>> /\ p[1] = 47

\* index of the first c in s at or after i, or Len(s) + 1
RECURSIVE IndexFrom(_, _, _)
IndexFrom(s, c, i) == IF i > Len(s) \/ s[i] = c THEN i ELSE IndexFrom(s, c, i + 1)

\* str.split('/')
RECURSIVE Split(_)
Split(p) ==
    LET i == IndexFrom(p, 47, 1)
    IN  IF i > Len(p) THEN <<p>> ELSE <<Take(p, i - 1)>> \o Split(Drop(p, i))

\* '/'.join(comps)
RECURSIVE JoinSep(_)
JoinSep(comps) ==
    IF comps = <<>> THEN <<>>
    ELSE IF Len(comps) = 1 THEN comps[1]
    ELSE comps[1] \o SEP \o JoinSep(Tail(comps))

\* os.path.join(a, b)
PathJoin(a, b) ==
    IF IsAbs(b) THEN b
    ELSE IF a = <<>> \/ a[Len(a)] = 47 THEN a \o b
    ELSE a \o SEP \o b

\* os.path.expanduser: only a leading "~" alone names the HOME of the process
expanduser(p) ==
    IF p = <<>> \/ p[1] # 126 THEN p
    ELSE LET i == IndexFrom(p, 47, 1)
         IN  IF i # 2 THEN p
             ELSE IF HOME_DIR \o Drop(p, 1) = <<>> THEN SEP ELSE HOME_DIR \o Drop(p, 1)

IsNameChar(c) == (c >= 48 /\ c <= 57) \/ (c >= 65 /\ c <= 90) \/ (c >= 97 /\ c <= 122) \/ c = 95

RECURSIVE NameEnd(_, _)
NameEnd(p, i) == IF i <= Len(p) /\ IsNameChar(p[i]) THEN NameEnd(p, i + 1) ELSE i

\* os.path.expandvars for the $NAME form; a variable that is not set stays as written
RECURSIVE expandvars(_)
expandvars(p) ==
    LET i == IndexFrom(p, 36, 1)
    IN  IF i > Len(p) THEN p
        ELSE LET e == NameEnd(p, i + 1)
                 name == SubSeq(p, i + 1, e - 1)
             IN  Take(p, i - 1)
                 \o (IF name = ENV_HOME THEN HOME_DIR ELSE SubSeq(p, i, e - 1))
                 \o expandvars(Drop(p, e - 1))

\* the component loop of posixpath.normpath
RECURSIVE NormComps(_, _, _)
NormComps(comps, initial_slashes, new_comps) ==
    IF comps = <<>> THEN new_comps
    ELSE LET comp == Head(comps)
         IN  IF comp = <<>> \/ comp = Dot
             THEN NormComps(Tail(comps), initial_slashes, new_comps)
             ELSE IF comp # DotDot
                     \/ (initial_slashes = 0 /\ new_comps = <<>>)
                     \/ (new_comps # <<>> /\ new_comps[Len(new_comps)] = DotDot)
             THEN NormComps(Tail(comps), initial_slashes, Append(new_comps, comp))
             ELSE IF new_comps # <<>>
             THEN NormComps(Tail(comps), initial_slashes, Take(new_comps, Len(new_comps) - 1))
             ELSE NormComps(Tail(comps), initial_slashes, new_comps)

normpath(p) ==
    IF p = <<>> THEN Dot
    ELSE LET initial_slashes ==
                 IF ~IsAbs(p) THEN 0
                 ELSE IF StartsWith(p, <<47, 47>>) /\ ~StartsWith(p, <<47, 47, 47>>) THEN 2
                 ELSE 1
             joined == JoinSep(NormComps(Split(p), initial_slashes, <<>>))
             res == (IF initial_slashes = 2 THEN <<47, 47>>
                     ELSE IF initial_slashes = 1 THEN SEP ELSE <<>>) \o joined
         IN  IF res = <<>> THEN Dot ELSE res

\* os.path.basename
RECURSIVE basename(_)
basename(p) ==
    LET i == IndexFrom(p, 47, 1)
    IN  IF i > Len(p) THEN p ELSE basename(Drop(p, i))

\* str.lower() on ASCII letters
lower(s) == [i \in 1..Len(s) |-> IF s[i] >= 65 /\ s[i] <= 90 THEN s[i] + 32 ELSE s[i]]

RECURSIVE SelectComps(_)
SelectComps(comps) ==
    IF comps = <<>> THEN <<>>
    ELSE (IF Head(comps) = <<>> \/ Head(comps) = Dot THEN <<>> ELSE <<Head(comps)>>)
         \o SelectComps(Tail(comps))

RECURSIVE CommonPrefix(_, _)
CommonPrefix(a, b) ==
    IF a = <<>> \/ b = <<>> \/ Head(a) # Head(b) THEN <<>>
    ELSE <<Head(a)>> \o CommonPrefix(Tail(a), Tail(b))

\* os.path.commonpath([a, b]): [ok, p]; ok = FALSE stands for ValueError
commonpath(a, b) ==
    IF IsAbs(a) # IsAbs(b) THEN [ok |-> FALSE, p |-> <<>>]
    ELSE [ok |-> TRUE,
          p |-> (IF IsAbs(a) THEN SEP ELSE <<>>)
                \o JoinSep(CommonPrefix(SelectComps(Split(a)), SelectComps(Split(b))))]

(***************************************************************************)
(* The filesystem.  Directories that never change (StaticDirs) and the     *)
(* nodes the model tracks (Tracked), each absent, a regular file, or a     *)
(* directory holding a set of plain entries (items).  There are no         *)
(* symbolic links.                                                         *)
(***************************************************************************)
N_safe == <<47, 104, 47, 46, 99, 106, 116, 45, 104, 101, 108, 112, 101, 114>>  \* "/h/.cjt-helper"
N_auto == <<47, 104, 47, 46, 99, 106, 116, 45, 104, 101, 108, 112, 101, 114, 47, 97, 117, 116, 111, 45, 117, 112, 100, 97, 116, 101>>  \* "/h/.cjt-helper/auto-update"
N_docs == <<47, 104, 47, 68>>  \* "/h/D"
N_caps == <<47, 120, 47, 67, 74, 84, 45, 72, 101, 108, 112, 101, 114>>  \* "/x/CJT-Helper"
N_other == <<47, 120, 47, 111>>  \* "/x/o"
N_file == <<47, 102>>  \* "/f"

StaticDirs == {SEP, HOME_DIR, CWD}

Tracked == {N_safe, N_auto, N_docs, N_caps, N_other, N_file}

Absent == [kind |-> "absent", items |-> {}]

DirOf(items) == [kind |-> "dir", items |-> items]

Kind(f, node) ==
    IF node \in StaticDirs THEN "dir"
    ELSE IF node \in Tracked THEN f[node].kind
    ELSE "absent"

\* path resolution as the kernel does it, component by component; with `create`
\* a missing directory is made on the way (os.makedirs).  [ok, node, fs]
RECURSIVE WalkFrom(_, _, _, _)
WalkFrom(f, cur, comps, create) ==
    IF comps = <<>> THEN [ok |-> TRUE, node |-> cur, fs |-> f]
    ELSE IF Kind(f, cur) # "dir" THEN [ok |-> FALSE, node |-> cur, fs |-> f]
    ELSE LET c == Head(comps)
             nx == PathJoin(cur, c)
         IN  IF c = <<>> \/ c = Dot THEN WalkFrom(f, cur, Tail(comps), create)
             ELSE IF c = DotDot THEN WalkFrom(f, normpath(PathJoin(cur, DotDot)), Tail(comps), create)
             ELSE IF Kind(f, nx) # "absent" THEN WalkFrom(f, nx, Tail(comps), create)
             ELSE IF create /\ nx \in Tracked
                 THEN WalkFrom([f EXCEPT ![nx] = DirOf({})], nx, Tail(comps), create)
             ELSE [ok |-> FALSE, node |-> nx, fs |-> f]

Walk(f, p, create) ==
    IF p = <<>> THEN [ok |-> FALSE, node |-> <<>>, fs |-> f]
    ELSE WalkFrom(f, IF IsAbs(p) THEN SEP ELSE CWD, Split(p), create)

\* os.path.exists, os.path.isdir
exists(f, p) == Walk(f, p, FALSE).ok

isdir(f, p) == LET r == Walk(f, p, FALSE) IN r.ok /\ Kind(f, r.node) = "dir"

\* os.makedirs(p, exist_ok=True): [ok, fs]; ok = FALSE stands for OSError
makedirs(f, p) ==
    LET r == Walk(f, p, TRUE)
    IN  [ok |-> r.ok /\ Kind(r.fs, r.node) = "dir", fs |-> r.fs]

\* what a directory holds: its plain entries (tracked sub-directories apart)
Contents(f, p) ==
    LET r == Walk(f, p, FALSE)
    IN  IF r.ok /\ r.node \in Tracked THEN f[r.node].items ELSE {}

IsBelow(node, dir) == StartsWith(node, IF dir = SEP THEN SEP ELSE dir \o SEP) /\ node # dir

\* every child of the directory removed (os.listdir, shutil.rmtree / os.remove)
RemoveChildren(f, dir) ==
    [n \in Tracked |->
        IF n = dir THEN DirOf({})
        ELSE IF IsBelow(n, dir) THEN Absent
        ELSE f[n]]

\* the directory gains an entry (ZipFile.extract)
AddEntry(f, p, name) ==
    LET r == Walk(f, p, FALSE)
    IN  IF r.ok /\ r.node \in Tracked /\ f[r.node].kind = "dir"
        THEN [f EXCEPT ![r.node].items = @ \cup {name}]
        ELSE f

(***************************************************************************)
(* resolve_target_dir, ensure_clean_target_dir, normalize_path,            *)
(* check_install_dir.                                                      *)
(***************************************************************************)
\* [ok, p]; ok = FALSE stands for the TypeError of expandvars on a non-string
resolve_target_dir(message) ==
    LET target_dir == DictGet(message.m, K_targetDir)
    IN  IF Truthy(target_dir)
        THEN IF target_dir.t = "str"
             THEN [ok |-> TRUE, p |-> expanduser(expandvars(target_dir.s))]
             ELSE [ok |-> FALSE, p |-> <<>>]
        ELSE [ok |-> TRUE,
              p |-> PathJoin(PathJoin(expanduser(<<126>>), S_dot_cjt_helper), S_auto_update)]

\* line 134: whether commonpath([target_dir, safe_root]) == safe_root
is_under_safe_root(target_dir) ==
    LET safe_root == PathJoin(expanduser(<<126>>), S_dot_cjt_helper)
    IN  commonpath(target_dir, safe_root).p = safe_root

\* line 141
allow_by_name(target_dir) == lower(basename(normpath(target_dir))) = S_cjt_helper

\* whether ensure_clean_target_dir goes on to remove the children of an
\* existing target_dir (lines 131-145)
WillClean(target_dir) ==
    LET safe_root == PathJoin(expanduser(<<126>>), S_dot_cjt_helper)
    IN  /\ commonpath(target_dir, safe_root).ok
        /\ is_under_safe_root(target_dir) \/ allow_by_name(target_dir)

\* the filesystem after ensure_clean_target_dir(target_dir)
ensure_clean_target_dir(f, target_dir) ==
    IF ~exists(f, target_dir) THEN makedirs(f, target_dir).fs
    ELSE IF ~WillClean(target_dir) THEN f
    ELSE LET r == Walk(f, target_dir, FALSE)
         IN  IF Kind(f, r.node) = "dir" THEN RemoveChildren(f, r.node) ELSE f

normalize_path(path) == IF path = <<>> THEN <<>> ELSE expanduser(expandvars(path))

\* [ok, path, text]
check_install_dir(f, path) ==
    LET normalized == normalize_path(path)
    IN  IF normalized = <<>> THEN [ok |-> FALSE, path |-> <<>>, text |-> "dir_empty"]
        ELSE IF isdir(f, normalized) THEN [ok |-> TRUE, path |-> normalized, text |-> ""]
        ELSE [ok |-> FALSE, path |-> normalized, text |-> "dir_missing"]

(***************************************************************************)
(* The world outside the process: what urlopen finds behind a download URL.*)
(*   "g"  a 100000-byte archive of two members, Content-Length given       *)
(*   "e"  a 22-byte archive of no members, no Content-Length               *)
(* Any other URL cannot be reached (urlopen raises).                       *)
(***************************************************************************)
CHUNK_SIZE == 65536

URL_good == <<103>>  \* "g"
URL_empty == <<101>>  \* "e"
URL_bad == <<98>>  \* "b"

Server(url) ==
    IF url = JStr(URL_good)
        THEN [reachable |-> TRUE, length |-> 100000, content_length |-> 100000,
              members |-> <<"m1", "m2">>]
    ELSE IF url = JStr(URL_empty)
        THEN [reachable |-> TRUE, length |-> 22, content_length |-> 0, members |-> <<>>]
    ELSE [reachable |-> FALSE, length |-> 0, content_length |-> 0, members |-> <<>>]

(***************************************************************************)
(* Status messages (the payloads of send_message).  Texts are named:       *)
(*   "missing_url" line 180, "already_running" line 236, "unknown_cmd"     *)
(*   line 262, "start_download" line 187, "download_done" line 197,        *)
(*   "cancel_sent" line 246, "canceled" lines 71/105, "dir_empty" line     *)
(*   170, "dir_missing" line 173, "urlopen_error" the text of the          *)
(*   exception urlopen raised.                                             *)
(***************************************************************************)
NoMsg == [status |-> "", phase |-> "", percent |-> 0, text |-> "", path |-> <<>>, ok |-> FALSE]

StatusMsg(status, text) == [NoMsg EXCEPT !.status = status, !.text = text]

ProgressMsg(phase, percent) ==
    [NoMsg EXCEPT !.status = "progress", !.phase = phase, !.percent = percent,
                  !.text = "progress"]

CompleteMsg(path) == [NoMsg EXCEPT !.status = "complete", !.path = path]

CheckMsg(r) ==
    [NoMsg EXCEPT !.status = "check_install_dir", !.ok = r.ok, !.path = r.path, !.text = r.text]

(***************************************************************************)
(* State.                                                                  *)
(***************************************************************************)
VARIABLES
    stdin,          \* bytes written to the process's stdin and not yet read
    stdin_closed,   \* the host has closed its end
    host_writes,    \* number of writes the host has made
    mainpc,         \* where main() is
    message,        \* main's current message
    op,             \* number of commands main has read; the current one's index
    ops,            \* history: the cmd of every command read
    update_lock,    \* [held, by]: by = 0 is the main thread, i > 0 thread i
    send_lock,      \* [held, by]
    cancel_event,   \* threading.Event
    update_thread,  \* 0 for None, else the index of the thread object
    thr,            \* the threads main has created, by the index of their command
    pend,           \* per thread (0 = main): the frame send_message is sending
    out,            \* the write() calls made on stdout, in order
    fs              \* the filesystem

vars == <<stdin, stdin_closed, host_writes, mainpc, message, op, ops, update_lock,
          send_lock, cancel_event, update_thread, thr, pend, out, fs>>

\* a thread is named by the number of the command that started it; the scripted
\* session of SpecScript is one command longer than the host's free sessions
Threads == 1..(MaxCmds + 1)

Unlocked == [held |-> FALSE, by |-> 0]

LockedBy(who) == [held |-> TRUE, by |-> who]

NoThread ==
    [pc |-> "none", message |-> JNull, target_dir |-> <<>>, total |-> 0, remaining |-> 0,
     downloaded |-> 0, last_percent |-> 0 - 1, index |-> 0, fate |-> "",
     \* the temporary directory: "none", "made", "removed", or "left" when
     \* shutil.rmtree failed
     temp |-> "none",
     \* history: the target's contents on acceptance, and what C4 and C8 speak of
     items0 |-> {}, cancel_early |-> FALSE, checkpoint |-> FALSE, downloaded_ok |-> FALSE]

NoPend == [msg |-> NoMsg, ret |-> ""]

\* the process runs until main() returns or dies of an exception; its daemon
\* thread dies with it
ProcessAlive == mainpc \notin {"exited", "crashed"}

\* Thread.is_alive()
is_alive(i) == thr[i].pc \notin {"none", "dead"}

(***************************************************************************)
(* send_message: under send_lock, write the 4-byte length, then the data   *)
(* and flush.                                                              *)
(***************************************************************************)
\* the length written without waiting for send_lock
SendAcquireUnlocked(who) ==
    /\ send_lock' = LockedBy(who)
    /\ out' = Append(out, [w |-> IF who = 0 THEN op ELSE who, part |-> "len",
                           msg |-> pend[who].msg])

SendAcquire(who) ==
    /\ ~send_lock.held
    /\ send_lock' = LockedBy(who)
    /\ out' = Append(out, [w |-> IF who = 0 THEN op ELSE who, part |-> "len",
                           msg |-> pend[who].msg])

SendRelease(who) ==
    /\ send_lock' = Unlocked
    /\ out' = Append(out, [w |-> IF who = 0 THEN op ELSE who, part |-> "data",
                           msg |-> pend[who].msg])

(***************************************************************************)
(* The host: writes whole command frames, may end the stream with a        *)
(* truncated frame, and closes the stream.  main() reads one frame at a    *)
(* time and blocks for it, so what it does depends on the order of the     *)
(* host's writes, not on how early a write was made: each write is taken   *)
(* at the moment main() is waiting for it (HostTurn).                      *)
(***************************************************************************)
HostTurn == ProcessAlive /\ ~stdin_closed /\ mainpc = "read" /\ stdin = <<>>

T_docs == <<126, 47, 46, 99, 106, 116, 45, 104, 101, 108, 112, 101, 114, 47, 46, 46, 47, 68>>  \* "~/.cjt-helper/../D"
T_underfile == <<47, 102, 47, 116>>  \* "/f/t"

StartCmd(url) == JObj(<< <<K_cmd, JStr(S_start_update)>>, <<K_downloadUrl, JStr(url)>> >>)

StartCmdTo(url, dir) ==
    JObj(<< <<K_cmd, JStr(S_start_update)>>, <<K_downloadUrl, JStr(url)>>,
            <<K_targetDir, JStr(dir)>> >>)

HostCommands ==
    { StartCmd(URL_good), StartCmd(URL_bad), StartCmd(URL_empty),
      JObj(<< <<K_cmd, JStr(S_start_update)>> >>),
      StartCmdTo(URL_good, T_docs), StartCmdTo(URL_good, T_underfile),
      StartCmdTo(URL_empty, N_caps),
      JObj(<< <<K_cmd, JStr(S_start_update)>>, <<K_downloadUrl, JStr(URL_empty)>>,
              <<K_targetDir, JInt(7)>> >>),
      JObj(<< <<K_cmd, JStr(S_check_install_dir)>>, <<K_path, JInt(7)>> >>),
      JObj(<< <<K_cmd, JStr(S_cancel_update)>> >>),
      JObj(<< <<K_cmd, JStr(S_check_install_dir)>>, <<K_path, JStr(N_auto)>> >>),
      JObj(<< <<K_cmd, JStr(<<120>>)>> >>) }

\* ends of a stream cut short: 1, 2 or 3 bytes of a length prefix; a prefix of 5
\* with no body; a prefix of 5 with the 2-byte body "{}"
HostTails ==
    { <<5>>, <<5, 0>>, <<5, 0, 0>>, <<5, 0, 0, 0>>, <<5, 0, 0, 0, 123, 125>> }

\* the frames of the host's commands
HostFrames == {FrameBytes(c) : c \in HostCommands}

HostSend(frame) ==
    /\ HostTurn /\ host_writes < MaxCmds
    /\ stdin' = stdin \o frame
    /\ host_writes' = host_writes + 1
    /\ UNCHANGED <<stdin_closed, mainpc, message, op, ops, update_lock, send_lock,
                   cancel_event, update_thread, thr, pend, out, fs>>

HostTruncate(t) ==
    /\ HostTurn /\ host_writes < MaxCmds
    /\ stdin' = stdin \o t
    /\ host_writes' = host_writes + 1
    /\ stdin_closed' = TRUE
    /\ UNCHANGED <<mainpc, message, op, ops, update_lock, send_lock,
                   cancel_event, update_thread, thr, pend, out, fs>>

HostClose ==
    /\ HostTurn
    /\ stdin_closed' = TRUE
    /\ UNCHANGED <<stdin, host_writes, mainpc, message, op, ops, update_lock, send_lock,
                   cancel_event, update_thread, thr, pend, out, fs>>

(***************************************************************************)
(* main(): the session loop.                                               *)
(***************************************************************************)
Cmd(m) == DictGet(m.m, K_cmd)

CmdName(m) ==
    IF Cmd(m) = JStr(S_start_update) THEN "start_update"
    ELSE IF Cmd(m) = JStr(S_cancel_update) THEN "cancel_update"
    ELSE IF Cmd(m) = JStr(S_check_install_dir) THEN "check_install_dir"
    ELSE "unknown"

\* lines 228-231: read a message; None ends the loop, an exception (of
\* read_message, or of message.get on a value that is no dict) ends the process
ReadMessage ==
    /\ mainpc = "read"
    /\ ReadReady(stdin, stdin_closed)
    /\ LET r == read_message(stdin)
       IN  /\ stdin' = r.rest
           /\ IF r.kind = "raise" \/ (r.v.t \notin {"null", "obj"})
              THEN mainpc' = "crashed" /\ UNCHANGED <<message, op, ops>>
              ELSE IF r.v.t = "null"
              THEN mainpc' = "exited" /\ UNCHANGED <<message, op, ops>>
              ELSE /\ mainpc' = "dispatch"
                   /\ message' = r.v
                   /\ op' = op + 1
                   /\ ops' = Append(ops, CmdName(r.v))
    /\ UNCHANGED <<stdin_closed, host_writes, update_lock, send_lock, cancel_event,
                   update_thread, thr, pend, out, fs>>

\* line 233: with update_lock
StartUpdateLock ==
    /\ mainpc = "dispatch" /\ CmdName(message) = "start_update"
    /\ ~update_lock.held
    /\ update_lock' = LockedBy(0)
    /\ mainpc' = "locked"
    /\ UNCHANGED <<stdin, stdin_closed, host_writes, message, op, ops, send_lock,
                   cancel_event, update_thread, thr, pend, out, fs>>

\* the check of line 234 left out
SlotBusyNever == FALSE

\* a check that takes the slot for free once the task has sent its last frame
SlotBusyUntilLastFrame ==
    /\ update_thread # 0
    /\ thr[update_thread].pc \notin {"none", "rmtree", "clear_lock", "clear", "dead"}

\* line 234: update_thread and update_thread.is_alive()
SlotBusy == update_thread # 0 /\ is_alive(update_thread)

\* a rejection that also sets the cancellation event
StartUpdateRejectCancels ==
    /\ mainpc = "locked" /\ SlotBusy
    /\ cancel_event' = TRUE
    /\ pend' = [pend EXCEPT ![0] = [msg |-> StatusMsg("error", "already_running"),
                                    ret |-> "read"]]
    /\ mainpc' = "send1"
    /\ UNCHANGED <<stdin, stdin_closed, host_writes, message, op, ops, update_lock,
                   send_lock, update_thread, thr, out, fs>>

\* lines 235-237: reject; the error is sent with update_lock still held
StartUpdateReject ==
    /\ mainpc = "locked" /\ SlotBusy
    /\ pend' = [pend EXCEPT ![0] = [msg |-> StatusMsg("error", "already_running"),
                                    ret |-> "read"]]
    /\ mainpc' = "send1"
    /\ UNCHANGED <<stdin, stdin_closed, host_writes, message, op, ops, update_lock,
                   send_lock, cancel_event, update_thread, thr, out, fs>>

\* an acceptance that leaves the cancellation event as it finds it
StartUpdateAcceptKeepsEvent ==
    /\ mainpc = "locked" /\ ~SlotBusy
    /\ thr' = [thr EXCEPT ![op] = [NoThread EXCEPT !.pc = "start", !.message = message]]
    /\ update_thread' = op
    /\ update_lock' = Unlocked
    /\ mainpc' = "read"
    /\ UNCHANGED <<stdin, stdin_closed, host_writes, message, op, ops, send_lock,
                   cancel_event, pend, out, fs>>

\* lines 238-241: clear the event, create and start the thread, leave the lock
StartUpdateAccept ==
    /\ mainpc = "locked" /\ ~SlotBusy
    /\ cancel_event' = FALSE
    /\ thr' = [thr EXCEPT ![op] = [NoThread EXCEPT !.pc = "start", !.message = message]]
    /\ update_thread' = op
    /\ update_lock' = Unlocked
    /\ mainpc' = "read"
    /\ UNCHANGED <<stdin, stdin_closed, host_writes, message, op, ops, send_lock,
                   pend, out, fs>>

\* the stages of a task in which its download has not ended
BeforeDownloadEnd(i) ==
    \/ thr[i].pc \in {"start", "open", "dl_check", "dl_read"}
    \/ thr[i].pc \in {"send1", "send2"} /\ pend[i].ret \in {"open", "dl_check"}

\* a cancel_update that waits for the running task to end before it answers
CancelUpdateWaits ==
    /\ mainpc = "dispatch" /\ CmdName(message) = "cancel_update"
    /\ \A i \in Threads : ~is_alive(i)
    /\ cancel_event' = TRUE
    /\ pend' = [pend EXCEPT ![0] = [msg |-> StatusMsg("log", "cancel_sent"), ret |-> "read"]]
    /\ mainpc' = "send1"
    /\ UNCHANGED <<stdin, stdin_closed, host_writes, message, op, ops, update_lock,
                   send_lock, update_thread, thr, out, fs>>

\* lines 242-246
CancelUpdate ==
    /\ mainpc = "dispatch" /\ CmdName(message) = "cancel_update"
    /\ cancel_event' = TRUE
    /\ thr' = [i \in Threads |->
                  IF BeforeDownloadEnd(i) THEN [thr[i] EXCEPT !.cancel_early = TRUE]
                  ELSE thr[i]]
    /\ pend' = [pend EXCEPT ![0] = [msg |-> StatusMsg("log", "cancel_sent"), ret |-> "read"]]
    /\ mainpc' = "send1"
    /\ UNCHANGED <<stdin, stdin_closed, host_writes, message, op, ops, update_lock,
                   send_lock, update_thread, out, fs>>

\* lines 247-259
CheckInstallDir ==
    /\ mainpc = "dispatch" /\ CmdName(message) = "check_install_dir"
    /\ LET raw_path == DictGet(message.m, K_path)
       IN  \* a path that is no string: normalize_path returns '' for a falsy one,
           \* expandvars raises for any other
           IF raw_path.t = "str" \/ ~Truthy(raw_path)
           THEN /\ pend' = [pend EXCEPT ![0] =
                               [msg |-> CheckMsg(check_install_dir(fs, raw_path.s)),
                                ret |-> "read"]]
                /\ mainpc' = "send1"
           ELSE mainpc' = "crashed" /\ UNCHANGED pend
    /\ UNCHANGED <<stdin, stdin_closed, host_writes, message, op, ops, update_lock,
                   send_lock, cancel_event, update_thread, thr, out, fs>>

\* lines 260-262
UnknownCmd ==
    /\ mainpc = "dispatch" /\ CmdName(message) = "unknown"
    /\ pend' = [pend EXCEPT ![0] = [msg |-> StatusMsg("error", "unknown_cmd"), ret |-> "read"]]
    /\ mainpc' = "send1"
    /\ UNCHANGED <<stdin, stdin_closed, host_writes, message, op, ops, update_lock,
                   send_lock, cancel_event, update_thread, thr, out, fs>>

\* send_message in the main thread, lines 33-34
MainSend1 ==
    /\ mainpc = "send1"
    /\ SendAcquire(0)
    /\ mainpc' = "send2"
    /\ UNCHANGED <<stdin, stdin_closed, host_writes, message, op, ops, update_lock,
                   cancel_event, update_thread, thr, pend, fs>>

\* lines 35-36, and back to the loop: `continue` at line 237 leaves update_lock
MainSend2 ==
    /\ mainpc = "send2"
    /\ SendRelease(0)
    /\ mainpc' = pend[0].ret
    /\ pend' = [pend EXCEPT ![0] = NoPend]
    /\ update_lock' = IF update_lock = LockedBy(0) THEN Unlocked ELSE update_lock
    /\ UNCHANGED <<stdin, stdin_closed, host_writes, message, op, ops,
                   cancel_event, update_thread, thr, fs>>

(***************************************************************************)
(* The background thread: run_update -> handle_start_update.               *)
(***************************************************************************)
\* thread i goes on to send msg, then to pc ret
Sending(i, msg, ret) == pend' = [pend EXCEPT ![i] = [msg |-> msg, ret |-> ret]]

\* the target directory cleaned on acceptance, before the download
BgBeginCleansFirst(i) ==
    /\ ProcessAlive /\ thr[i].pc = "start"
    /\ LET target == resolve_target_dir(thr[i].message)
       IN  /\ target.ok /\ makedirs(fs, target.p).ok
           /\ Truthy(DictGet(thr[i].message.m, K_downloadUrl))
           /\ thr' = [thr EXCEPT ![i].pc = "send1", ![i].target_dir = target.p,
                                 ![i].items0 = Contents(fs, target.p)]
           /\ fs' = ensure_clean_target_dir(makedirs(fs, target.p).fs, target.p)
           /\ pend' = [pend EXCEPT ![i] = [msg |-> StatusMsg("log", "start_download"),
                                           ret |-> "open"]]
    /\ UNCHANGED <<stdin, stdin_closed, host_writes, mainpc, message, op, ops, update_lock,
                   send_lock, cancel_event, update_thread, out>>

\* lines 178-187: the download URL, the target directory, the start log.  An
\* exception of resolve_target_dir or os.makedirs is raised outside the try
\* of line 192: it leaves handle_start_update and, past the finally of
\* run_update, ends the thread.
BgBegin(i) ==
    /\ ProcessAlive /\ thr[i].pc = "start"
    /\ LET download_url == DictGet(thr[i].message.m, K_downloadUrl)
           target == resolve_target_dir(thr[i].message)
           made == makedirs(fs, target.p)
       IN  IF ~Truthy(download_url)
           THEN /\ thr' = [thr EXCEPT ![i].pc = "send1", ![i].fate = "error"]
                /\ Sending(i, StatusMsg("error", "missing_url"), "clear_lock")
                /\ UNCHANGED fs
           ELSE IF ~target.ok
           THEN /\ thr' = [thr EXCEPT ![i].pc = "clear_lock", ![i].fate = "uncaught"]
                /\ UNCHANGED <<pend, fs>>
           ELSE IF ~made.ok
           THEN /\ thr' = [thr EXCEPT ![i].pc = "clear_lock", ![i].fate = "uncaught",
                                      ![i].target_dir = target.p,
                                      ![i].items0 = Contents(fs, target.p)]
                /\ fs' = made.fs
                /\ UNCHANGED pend
           ELSE /\ thr' = [thr EXCEPT ![i].pc = "send1", ![i].target_dir = target.p,
                                      ![i].items0 = Contents(fs, target.p)]
                /\ fs' = made.fs
                /\ Sending(i, StatusMsg("log", "start_download"), "open")
    /\ UNCHANGED <<stdin, stdin_closed, host_writes, mainpc, message, op, ops, update_lock,
                   send_lock, cancel_event, update_thread, out>>

\* lines 189-190, 64-68: the temporary directory, urlopen, Content-Length
BgOpen(i) ==
    /\ ProcessAlive /\ thr[i].pc = "open"
    /\ LET response == Server(DictGet(thr[i].message.m, K_downloadUrl))
       IN  IF response.reachable
           THEN /\ thr' = [thr EXCEPT ![i].pc = "dl_check", ![i].temp = "made",
                                      ![i].total = response.content_length,
                                      ![i].remaining = response.length,
                                      ![i].downloaded = 0,
                                      ![i].last_percent = 0 - 1]
                /\ UNCHANGED pend
           ELSE /\ thr' = [thr EXCEPT ![i].pc = "send1", ![i].fate = "error",
                                      ![i].temp = "made"]
                /\ Sending(i, StatusMsg("error", "urlopen_error"), "rmtree")
    /\ UNCHANGED <<stdin, stdin_closed, host_writes, mainpc, message, op, ops, update_lock,
                   send_lock, cancel_event, update_thread, out, fs>>

\* a checkpoint that does not look at the event
CheckpointBlind(i, next) ==
    /\ thr' = [thr EXCEPT ![i].pc = next, ![i].checkpoint = thr[i].cancel_early]
    /\ UNCHANGED pend

\* what a checkpoint does: lines 70-71 and 104-105, with the handler of lines
\* 201-203
Checkpoint(i, next) ==
    IF cancel_event
    THEN /\ thr' = [thr EXCEPT ![i].pc = "send1", ![i].fate = "canceled",
                               ![i].checkpoint = thr[i].cancel_early]
         /\ Sending(i, StatusMsg("canceled", "canceled"), "rmtree")
    ELSE /\ thr' = [thr EXCEPT ![i].pc = next, ![i].checkpoint = thr[i].cancel_early]
         /\ UNCHANGED pend

\* lines 69-71
BgDlCheck(i) ==
    /\ ProcessAlive /\ thr[i].pc = "dl_check"
    /\ Checkpoint(i, "dl_read")
    /\ UNCHANGED <<stdin, stdin_closed, host_writes, mainpc, message, op, ops, update_lock,
                   send_lock, cancel_event, update_thread, out, fs>>

\* lines 72-93: read a chunk; none left ends the loop
BgDlRead(i) ==
    /\ ProcessAlive /\ thr[i].pc = "dl_read"
    /\ LET t == thr[i]
           chunk == IF t.remaining < CHUNK_SIZE THEN t.remaining ELSE CHUNK_SIZE
           downloaded == t.downloaded + chunk
           percent == (downloaded * 100) \div t.total
       IN  IF chunk = 0
           THEN /\ thr' = [thr EXCEPT ![i].pc = "clean", ![i].downloaded_ok = TRUE]
                /\ UNCHANGED pend
           ELSE IF t.total > 0
           THEN IF percent # t.last_percent
                THEN /\ thr' = [thr EXCEPT ![i].pc = "send1", ![i].downloaded = downloaded,
                                           ![i].remaining = t.remaining - chunk,
                                           ![i].last_percent = percent]
                     /\ Sending(i, ProgressMsg("download", percent), "dl_check")
                ELSE /\ thr' = [thr EXCEPT ![i].pc = "dl_check", ![i].downloaded = downloaded,
                                           ![i].remaining = t.remaining - chunk]
                     /\ UNCHANGED pend
           ELSE IF downloaded % (CHUNK_SIZE * 20) = 0
                THEN /\ thr' = [thr EXCEPT ![i].pc = "send1", ![i].downloaded = downloaded,
                                           ![i].remaining = t.remaining - chunk]
                     /\ Sending(i, ProgressMsg("download", 0), "dl_check")
                ELSE /\ thr' = [thr EXCEPT ![i].pc = "dl_check", ![i].downloaded = downloaded,
                                           ![i].remaining = t.remaining - chunk]
                     /\ UNCHANGED pend
    /\ UNCHANGED <<stdin, stdin_closed, host_writes, mainpc, message, op, ops, update_lock,
                   send_lock, cancel_event, update_thread, out, fs>>

\* lines 195-197: clean the target directory, log
BgClean(i) ==
    /\ ProcessAlive /\ thr[i].pc = "clean"
    /\ fs' = ensure_clean_target_dir(fs, thr[i].target_dir)
    /\ thr' = [thr EXCEPT ![i].pc = "send1"]
    /\ Sending(i, StatusMsg("log", "download_done"), "ex_open")
    /\ UNCHANGED <<stdin, stdin_closed, host_writes, mainpc, message, op, ops, update_lock,
                   send_lock, cancel_event, update_thread, out>>

\* the cancellation event looked at before the members are counted
BgExOpenChecks(i) ==
    /\ ProcessAlive /\ thr[i].pc = "ex_open"
    /\ LET members == Server(DictGet(thr[i].message.m, K_downloadUrl)).members
       IN  IF cancel_event
           THEN /\ thr' = [thr EXCEPT ![i].pc = "send1", ![i].fate = "canceled"]
                /\ Sending(i, StatusMsg("canceled", "canceled"), "rmtree")
           ELSE IF Len(members) = 0
           THEN /\ thr' = [thr EXCEPT ![i].pc = "send1", ![i].fate = "complete"]
                /\ Sending(i, CompleteMsg(thr[i].target_dir), "rmtree")
           ELSE /\ thr' = [thr EXCEPT ![i].pc = "ex_check", ![i].index = 1]
                /\ UNCHANGED pend
    /\ UNCHANGED <<stdin, stdin_closed, host_writes, mainpc, message, op, ops, update_lock,
                   send_lock, cancel_event, update_thread, out, fs>>

\* lines 98-102: the archive's members; none: return, and line 200
BgExOpen(i) ==
    /\ ProcessAlive /\ thr[i].pc = "ex_open"
    /\ LET members == Server(DictGet(thr[i].message.m, K_downloadUrl)).members
       IN  IF Len(members) = 0
           THEN /\ thr' = [thr EXCEPT ![i].pc = "send1", ![i].fate = "complete"]
                /\ Sending(i, CompleteMsg(thr[i].target_dir), "rmtree")
           ELSE /\ thr' = [thr EXCEPT ![i].pc = "ex_check", ![i].index = 1]
                /\ UNCHANGED pend
    /\ UNCHANGED <<stdin, stdin_closed, host_writes, mainpc, message, op, ops, update_lock,
                   send_lock, cancel_event, update_thread, out, fs>>

\* lines 103-105
BgExCheck(i) ==
    /\ ProcessAlive /\ thr[i].pc = "ex_check"
    /\ Checkpoint(i, "ex_member")
    /\ UNCHANGED <<stdin, stdin_closed, host_writes, mainpc, message, op, ops, update_lock,
                   send_lock, cancel_event, update_thread, out, fs>>

\* the extract progress computed from the members done before this one
BgExMemberLagging(i) ==
    /\ ProcessAlive /\ thr[i].pc = "ex_member"
    /\ LET members == Server(DictGet(thr[i].message.m, K_downloadUrl)).members
           total == Len(members)
           index == thr[i].index
       IN  /\ fs' = AddEntry(fs, thr[i].target_dir, members[index])
           /\ thr' = [thr EXCEPT ![i].pc = "send1", ![i].index = index + 1]
           /\ Sending(i, ProgressMsg("extract", ((index - 1) * 100) \div total),
                      IF index = total THEN "complete" ELSE "ex_check")
    /\ UNCHANGED <<stdin, stdin_closed, host_writes, mainpc, message, op, ops, update_lock,
                   send_lock, cancel_event, update_thread, out>>

\* lines 106-113: extract a member, report
BgExMember(i) ==
    /\ ProcessAlive /\ thr[i].pc = "ex_member"
    /\ LET members == Server(DictGet(thr[i].message.m, K_downloadUrl)).members
           total == Len(members)
           index == thr[i].index
       IN  /\ fs' = AddEntry(fs, thr[i].target_dir, members[index])
           /\ thr' = [thr EXCEPT ![i].pc = "send1", ![i].index = index + 1]
           /\ Sending(i, ProgressMsg("extract", (index * 100) \div total),
                      IF index = total THEN "complete" ELSE "ex_check")
    /\ UNCHANGED <<stdin, stdin_closed, host_writes, mainpc, message, op, ops, update_lock,
                   send_lock, cancel_event, update_thread, out>>

\* lines 199-200
BgComplete(i) ==
    /\ ProcessAlive /\ thr[i].pc = "complete"
    /\ thr' = [thr EXCEPT ![i].pc = "send1", ![i].fate = "complete"]
    /\ Sending(i, CompleteMsg(thr[i].target_dir), "rmtree")
    /\ UNCHANGED <<stdin, stdin_closed, host_writes, mainpc, message, op, ops, update_lock,
                   send_lock, cancel_event, update_thread, out, fs>>

\* send_message in the background thread, lines 33-34
BgSend1(i) ==
    /\ ProcessAlive /\ thr[i].pc = "send1"
    /\ SendAcquire(i)
    /\ thr' = [thr EXCEPT ![i].pc = "send2"]
    /\ UNCHANGED <<stdin, stdin_closed, host_writes, mainpc, message, op, ops, update_lock,
                   cancel_event, update_thread, pend, fs>>

\* lines 35-36
BgSend2(i) ==
    /\ ProcessAlive /\ thr[i].pc = "send2"
    /\ SendRelease(i)
    /\ thr' = [thr EXCEPT ![i].pc = pend[i].ret]
    /\ pend' = [pend EXCEPT ![i] = NoPend]
    /\ UNCHANGED <<stdin, stdin_closed, host_writes, mainpc, message, op, ops, update_lock,
                   cancel_event, update_thread, fs>>

\* a failure of the removal reported to the host
BgRmtreeReports(i) ==
    /\ ProcessAlive /\ thr[i].pc = "rmtree"
    /\ \/ /\ thr' = [thr EXCEPT ![i].pc = "clear_lock", ![i].temp = "removed"]
          /\ UNCHANGED pend
       \/ /\ thr' = [thr EXCEPT ![i].pc = "send1", ![i].temp = "left"]
          /\ Sending(i, StatusMsg("error", "rmtree_error"), "clear_lock")
    /\ UNCHANGED <<stdin, stdin_closed, host_writes, mainpc, message, op, ops, update_lock,
                   send_lock, cancel_event, update_thread, out, fs>>

\* a clean-up that enters send_message and goes for update_lock from inside it
BgRmtreeKeepsSendLock(i) ==
    /\ ProcessAlive /\ thr[i].pc = "rmtree"
    /\ ~send_lock.held
    /\ send_lock' = LockedBy(i)
    /\ \E removed \in BOOLEAN :
          thr' = [thr EXCEPT ![i].pc = "clear_lock",
                             ![i].temp = IF removed THEN "removed" ELSE "left"]
    /\ UNCHANGED <<stdin, stdin_closed, host_writes, mainpc, message, op, ops, update_lock,
                   cancel_event, update_thread, pend, out, fs>>

\* lines 207-211: shutil.rmtree(temp_dir) removes the temporary directory or
\* fails; the failure is swallowed
BgRmtree(i) ==
    /\ ProcessAlive /\ thr[i].pc = "rmtree"
    /\ \E removed \in BOOLEAN :
          thr' = [thr EXCEPT ![i].pc = "clear_lock",
                             ![i].temp = IF removed THEN "removed" ELSE "left"]
    /\ UNCHANGED <<stdin, stdin_closed, host_writes, mainpc, message, op, ops, update_lock,
                   send_lock, cancel_event, update_thread, pend, out, fs>>

\* line 220: with update_lock
BgClearLock(i) ==
    /\ ProcessAlive /\ thr[i].pc = "clear_lock"
    /\ ~update_lock.held
    /\ update_lock' = LockedBy(i)
    /\ thr' = [thr EXCEPT ![i].pc = "clear"]
    /\ UNCHANGED <<stdin, stdin_closed, host_writes, mainpc, message, op, ops,
                   send_lock, cancel_event, update_thread, pend, out, fs>>

\* line 221: update_thread = None; the lock is left and the thread ends
BgClear(i) ==
    /\ ProcessAlive /\ thr[i].pc = "clear"
    /\ update_thread' = 0
    /\ update_lock' = Unlocked
    /\ thr' = [thr EXCEPT ![i].pc = "dead"]
    /\ UNCHANGED <<stdin, stdin_closed, host_writes, mainpc, message, op, ops,
                   send_lock, cancel_event, pend, out, fs>>

(***************************************************************************)
(* The specification.  On start main() has written its first log line,     *)
(* which makes ~/.cjt-helper; the default target may or may not hold an    *)
(* earlier install.                                                        *)
(***************************************************************************)
InitFs ==
    { [n \in Tracked |->
          IF n = N_file THEN [kind |-> "file", items |-> {}]
          ELSE IF n = N_auto THEN auto
          ELSE IF n = N_safe THEN DirOf({"log"})
          ELSE DirOf({"old"})] : auto \in {Absent, DirOf({"old"})} }

Init ==
    /\ stdin = <<>>
    /\ stdin_closed = FALSE
    /\ host_writes = 0
    /\ mainpc = "read"
    /\ message = JNull
    /\ op = 0
    /\ ops = <<>>
    /\ update_lock = Unlocked
    /\ send_lock = Unlocked
    /\ cancel_event = FALSE
    /\ update_thread = 0
    /\ thr = [i \in Threads |-> NoThread]
    /\ pend = [i \in {0} \cup Threads |-> NoPend]
    /\ out = <<>>
    /\ fs \in InitFs

Next ==
    \/ \E frame \in HostFrames : HostSend(frame)
    \/ \E t \in HostTails : HostTruncate(t)
    \/ HostClose
    \/ ReadMessage
    \/ StartUpdateLock
    \/ StartUpdateReject
    \/ StartUpdateAccept
    \/ CancelUpdate
    \/ CheckInstallDir
    \/ UnknownCmd
    \/ MainSend1
    \/ MainSend2
    \/ \E i \in Threads :
          \/ BgBegin(i)
          \/ BgOpen(i)
          \/ BgDlCheck(i)
          \/ BgDlRead(i)
          \/ BgClean(i)
          \/ BgExOpen(i)
          \/ BgExCheck(i)
          \/ BgExMember(i)
          \/ BgComplete(i)
          \/ BgSend1(i)
          \/ BgSend2(i)
          \/ BgRmtree(i)
          \/ BgClearLock(i)
          \/ BgClear(i)

Spec == Init /\ [][Next]_vars

(***************************************************************************)
(* The frames on stdout.                                                   *)
(***************************************************************************)
\* the frames written in full for command w with a status among S
FramesOf(w, S) ==
    {k \in 1..Len(out) : out[k].part = "data" /\ out[k].w = w /\ out[k].msg.status \in S}

TerminalStatus == {"complete", "canceled", "error"}

\* handle_start_update is executing in thread i
InPipeline(i) == is_alive(i) /\ thr[i].pc \notin {"clear_lock", "clear"}

\* thread i has sent its last frame
PastPipeline(i) == thr[i].pc \in {"rmtree", "clear_lock", "clear", "dead"}

\* main is handling a start_update it rejects
Rejecting ==
    \/ mainpc = "locked" /\ SlotBusy
    \/ mainpc \in {"send1", "send2"} /\ pend[0].msg.text = "already_running"

\* the commands main has rejected as 'already running'
RejectedOps ==
    {out[k].w : k \in {n \in 1..Len(out) : out[n].msg.text = "already_running"}}
    \cup (IF Rejecting THEN {op} ELSE {})

(***************************************************************************)
(* C1: at most one update pipeline is executing in any reachable state,    *)
(* and a start_update rejected while a task is active never gets a thread  *)
(* of its own (it is not queued).                                          *)
(***************************************************************************)
C1_SingleFlight ==
    /\ Cardinality({i \in Threads : InPipeline(i)}) <= 1
    /\ \A w \in RejectedOps : thr[w].pc = "none"

\* a start_update has been rejected in full and another task is in its pipeline
C1_Witness ==
    \E w \in Threads, i \in Threads :
        /\ FramesOf(w, {"error"}) # {} /\ w \in RejectedOps /\ mainpc = "read"
        /\ InPipeline(i) /\ thr[i].pc = "ex_member"

(***************************************************************************)
(* C2: a start_update processed while a task is running yields exactly one *)
(* error frame for that command, and no step main takes for it touches the *)
(* running task: the cancellation event, the slot, the threads and the     *)
(* filesystem stay as they are (so the task ends as it would have).        *)
(***************************************************************************)
C2_RejectLeavesTask ==
    /\ [](\A w \in RejectedOps :
            /\ Cardinality(FramesOf(w, {"complete", "canceled", "progress", "log",
                                        "check_install_dir"})) = 0
            /\ Cardinality(FramesOf(w, {"error"})) <= 1
            /\ (w < op \/ mainpc \in {"read", "exited", "crashed"})
                   => Cardinality(FramesOf(w, {"error"})) = 1)
    /\ [][(Rejecting /\ mainpc' # mainpc)
            => /\ cancel_event' = cancel_event
               /\ update_thread' = update_thread
               /\ thr' = thr
               /\ fs' = fs]_vars

\* the rejection is over, its error frame written, and the task still running
C2_Witness ==
    /\ op = 2 /\ mainpc = "read" /\ 2 \in RejectedOps
    /\ Cardinality(FramesOf(2, {"error"})) = 1
    /\ thr[1].pc = "dl_read" /\ update_thread = 1 /\ ~cancel_event

(***************************************************************************)
(* C3: once a task's terminal frame is out, a start_update is never        *)
(* rejected as 'already running' on account of that task.                  *)
(***************************************************************************)
C3_NoRejectAfterTerminal ==
    (mainpc = "locked" /\ SlotBusy) => FramesOf(update_thread, TerminalStatus) = {}

(***************************************************************************)
(* C4: when cancel_update is processed while a task's download has not     *)
(* ended, and the task then comes to a cancellation checkpoint, the task    *)
(* emits exactly one canceled frame and neither an error nor a complete    *)
(* frame.                                                                  *)
(***************************************************************************)
C4_CancelDuringDownload ==
    \A i \in Threads :
        thr[i].checkpoint =>
            /\ FramesOf(i, {"error", "complete"}) = {}
            /\ Cardinality(FramesOf(i, {"canceled"})) <= 1
            /\ thr[i].pc \notin {"send1", "send2"} => Cardinality(FramesOf(i, {"canceled"})) = 1

\* a task canceled during its download has come to a checkpoint and ended
C4_Witness ==
    \E i \in Threads :
        /\ thr[i].checkpoint /\ thr[i].pc = "dead" /\ thr[i].downloaded > 0
        /\ Cardinality(FramesOf(i, {"canceled"})) = 1

(***************************************************************************)
(* C5: every start_update read by the session loop gets exactly one        *)
(* terminal frame (complete, canceled or error), also when the stream ends *)
(* while its task is running.                                              *)
(***************************************************************************)
C5_ExactlyOneTerminal ==
    \A w \in 1..op :
        (ops[w] = "start_update" /\ (~ProcessAlive \/ thr[w].pc = "dead"))
            => Cardinality(FramesOf(w, TerminalStatus)) = 1

(***************************************************************************)
(* C6: a failure to create the target directory of an accepted             *)
(* start_update is reported to the host as an error frame.                 *)
(***************************************************************************)
C6_DirFailureReported ==
    \A i \in Threads :
        (thr[i].fate = "uncaught" /\ thr[i].target_dir # <<>> /\ thr[i].pc = "dead")
            => Cardinality(FramesOf(i, {"error"})) = 1

(***************************************************************************)
(* C7: no step removes an entry of a directory unless the directory lies   *)
(* under the safe root ~/.cjt-helper or its last segment is exactly        *)
(* 'cjt-helper'.                                                           *)
(***************************************************************************)
C7_CleanOnlySafe ==
    [][\A n \in Tracked :
          (fs[n].kind = "dir" /\ ~(fs[n].items \subseteq fs'[n].items))
              => \/ n = N_safe \/ IsBelow(n, N_safe)
                 \/ basename(n) = S_cjt_helper]_vars

(***************************************************************************)
(* C8: while a task's download has not completed, the contents of its      *)
(* target directory are those found on acceptance (an absent directory     *)
(* counting as empty); a task whose download failed, or that was canceled  *)
(* during the download, has emitted exactly one terminal frame, error      *)
(* resp. canceled.                                                         *)
(***************************************************************************)
C8_CleanAfterDownload ==
    \A i \in Threads :
        (is_alive(i) /\ ~thr[i].downloaded_ok /\ thr[i].target_dir # <<>>) =>
            /\ Contents(fs, thr[i].target_dir) = thr[i].items0
            /\ (PastPipeline(i) /\ thr[i].fate \in {"error", "canceled"})
                  => /\ Cardinality(FramesOf(i, {thr[i].fate})) = 1
                     /\ Cardinality(FramesOf(i, TerminalStatus)) = 1

\* a task whose download failed has sent its error, its target still holding
\* the earlier install
C8_Witness ==
    \E i \in Threads :
        /\ thr[i].pc = "clear" /\ thr[i].fate = "error" /\ ~thr[i].downloaded_ok
        /\ thr[i].target_dir = N_auto /\ thr[i].items0 = {"old"}
        /\ Contents(fs, N_auto) = {"old"}

(***************************************************************************)
(* C9: a read that finds a complete length prefix n followed by fewer than *)
(* n bytes of body ends the process with an error: it neither returns an   *)
(* object parsed from the short body nor reports the end of the stream.    *)
(***************************************************************************)
TruncatedBody(input) == Len(input) >= 4 /\ Len(input) - 4 < UnpackLE32(Take(input, 4))

C9_TruncatedBodyIsFatal ==
    [][(mainpc = "read" /\ stdin_closed /\ TruncatedBody(stdin) /\ mainpc' # "read")
          => mainpc' = "crashed"]_vars

(***************************************************************************)
(* C10: a read that finds the stream at its end with 0, 1, 2 or 3 bytes    *)
(* left returns the end-of-stream signal, and the session loop ends        *)
(* cleanly.                                                                *)
(***************************************************************************)
C10_ShortPrefixIsEndOfStream ==
    [][(mainpc = "read" /\ stdin_closed /\ Len(stdin) < 4 /\ mainpc' # "read")
          => mainpc' = "exited"]_vars

(***************************************************************************)
(* The framing on its own: a writer that does what send_message does       *)
(* (lines 31-36) feeds a channel that read_message reads (lines 52-59).    *)
(* stdin is the channel, out the payloads written, ops what the reads      *)
(* gave.                                                                   *)
(***************************************************************************)
\* {"s": "é\"\\\n/", "n": -12, "b": true, "z": null, "o": {"k": "中"}}
P_nested ==
    JObj(<< <<<<115>>, JStr(<<233, 34, 92, 10, 47>>)>>,
            <<<<110>>, JInt(0 - 12)>>,
            <<<<98>>, JBool(TRUE)>>,
            <<<<122>>, JNull>>,
            <<<<111>>, JObj(<< <<<<107>>, JStr(<<20013>>)>> >>)>> >>)

\* a string of 300 letters: a body longer than 255 bytes
P_long == JStr([i \in 1..300 |-> 97])

\* {"status": "progress", "phase": "download", "percent": 100}
P_progress ==
    JObj(<< <<<<115, 116, 97, 116, 117, 115>>, JStr(<<112, 114, 111, 103, 114, 101, 115, 115>>)>>,
            <<<<112, 104, 97, 115, 101>>, JStr(<<100, 111, 119, 110, 108, 111, 97, 100>>)>>,
            <<<<112, 101, 114, 99, 101, 110, 116>>, JInt(100)>> >>)

RtPayloads ==
    { P_nested, P_long, P_progress, JNull, JBool(FALSE), JInt(0), JInt(70000),
      JObj(<<>>), JStr(<<>>), JStr(<<1, 9, 8, 12, 13, 31, 127, 2047, 2048, 65535>>) }

RtInit ==
    /\ stdin = <<>>
    /\ out = <<>>
    /\ ops = <<>>
    /\ stdin_closed = FALSE
    /\ host_writes = 0
    /\ mainpc = "read"
    /\ message = JNull
    /\ op = 0
    /\ update_lock = Unlocked
    /\ send_lock = Unlocked
    /\ cancel_event = FALSE
    /\ update_thread = 0
    /\ thr = [i \in Threads |-> NoThread]
    /\ pend = [i \in {0} \cup Threads |-> NoPend]
    /\ fs \in {f \in InitFs : f[N_auto] = Absent}

\* send_message(payload): the length, then the data
RtWrite(payload) ==
    /\ Len(out) < MaxFrames
    /\ stdin' = stdin \o PackLE32(Len(FrameData(payload))) \o FrameData(payload)
    /\ out' = Append(out, payload)
    /\ UNCHANGED <<ops, stdin_closed, host_writes, mainpc, message, op, update_lock,
                   send_lock, cancel_event, update_thread, thr, pend, fs>>

\* read_message(), once its two reads can be satisfied
RtRead ==
    /\ ReadReady(stdin, FALSE)
    /\ LET r == read_message(stdin)
       IN  /\ stdin' = r.rest
           /\ ops' = Append(ops, [kind |-> r.kind, v |-> r.v])
    /\ UNCHANGED <<out, stdin_closed, host_writes, mainpc, message, op, update_lock,
                   send_lock, cancel_event, update_thread, thr, pend, fs>>

RtNext ==
    \/ \E payload \in RtPayloads : RtWrite(payload)
    \/ RtRead

SpecRT == RtInit /\ [][RtNext]_vars

\* the frames of the payloads out[from..]
RECURSIVE FramesFrom(_)
FramesFrom(from) ==
    IF from > Len(out) THEN <<>> ELSE FrameBytes(out[from]) \o FramesFrom(from + 1)

(***************************************************************************)
(* C11: the bytes written for a payload are the 4-byte little-endian       *)
(* length of the body followed by the body; every read gives back a value  *)
(* equal to the payload written, the k-th read the k-th payload, and       *)
(* leaves in the channel exactly the frames not yet read.                  *)
(***************************************************************************)
C11_RoundTrip ==
    /\ \A k \in 1..Len(out) :
          LET frame == FrameBytes(out[k])
          IN  /\ Len(frame) >= 4
              /\ \A n \in 1..Len(frame) : frame[n] \in 0..255
              /\ UnpackLE32(Take(frame, 4)) = Len(frame) - 4
              /\ Drop(frame, 4) = Utf8Encode(JsonDumps(out[k]))
    /\ Len(ops) <= Len(out)
    /\ \A k \in 1..Len(ops) : ops[k] = [kind |-> "return", v |-> out[k]]
    /\ stdin = FramesFrom(Len(ops) + 1)

\* two frames, one of them longer than 255 bytes, written back to back and
\* both read
C11_Witness ==
    /\ out = <<P_nested, P_long>>
    /\ Len(ops) = 2 /\ ops[1].v = P_nested /\ ops[2].v = P_long
    /\ stdin = <<>>

(***************************************************************************)
(* C12: in every reachable state the writes on stdout are whole frames, a  *)
(* length followed at once by the data of the same message, with at most   *)
(* the length of the frame being written at the end, its writer holding    *)
(* send_lock; send_lock is taken and left without regard to update_lock.   *)
(***************************************************************************)
C12_WholeFrames ==
    /\ \A k \in 1..Len(out) :
          IF k % 2 = 1 THEN out[k].part = "len"
          ELSE /\ out[k].part = "data"
               /\ out[k].w = out[k - 1].w
               /\ out[k].msg = out[k - 1].msg
    /\ (Len(out) % 2 = 1) <=> send_lock.held
    /\ send_lock.held =>
          /\ pend[send_lock.by].msg = out[Len(out)].msg
          /\ IF send_lock.by = 0 THEN mainpc \in {"send2", "exited", "crashed"}
             ELSE thr[send_lock.by].pc = "send2"

\* a frame of the background thread is half written while main, holding
\* update_lock on its rejection path, waits for send_lock with a frame of its own
C12_Witness ==
    /\ mainpc = "send1" /\ update_lock = LockedBy(0)
    /\ send_lock = LockedBy(1) /\ thr[1].pc = "send2"
    /\ Len(out) % 2 = 1 /\ out[Len(out)].w = 1

(***************************************************************************)
(* The download loop on its own (lines 66-93): thread 1 has opened the     *)
(* response and enters the loop; main() waits for a command that does not  *)
(* come.  A response is [total, length]: the Content-Length header (0 when *)
(* there is none) and the number of body bytes the reads deliver.  The two *)
(* differ when the connection ends early (read then returns what came and  *)
(* next b''), and when the server sends Content-Length together with       *)
(* Transfer-Encoding: chunked: http.client then ignores the declared       *)
(* length and delivers the whole chunked body.                             *)
(***************************************************************************)
DlResponses ==
    { [total |-> 100000, length |-> 100000],
      [total |-> 1, length |-> 1],
      [total |-> CHUNK_SIZE * MaxChunks, length |-> CHUNK_SIZE * MaxChunks],
      [total |-> 20000000, length |-> 70000],
      [total |-> 100, length |-> 70000],
      [total |-> 0, length |-> CHUNK_SIZE * 20 + 1] }

DlInit ==
    /\ stdin = <<>>
    /\ stdin_closed = FALSE
    /\ host_writes = 1
    /\ mainpc = "read"
    /\ message = StartCmd(URL_good)
    /\ op = 1
    /\ ops = <<"start_update">>
    /\ update_lock = Unlocked
    /\ send_lock = Unlocked
    /\ cancel_event = FALSE
    /\ update_thread = 1
    /\ \E response \in DlResponses :
          thr = [i \in Threads |->
                    IF i = 1
                    THEN [NoThread EXCEPT !.pc = "dl_check", !.message = StartCmd(URL_good),
                                          !.temp = "made",
                                          !.target_dir = N_auto, !.items0 = {"old"},
                                          !.total = response.total,
                                          !.remaining = response.length]
                    ELSE NoThread]
    /\ pend = [i \in {0} \cup Threads |-> NoPend]
    /\ out = <<>>
    /\ fs \in {f \in InitFs : f[N_auto] # Absent}

DlNext == BgDlCheck(1) \/ BgDlRead(1) \/ BgSend1(1) \/ BgSend2(1)

SpecDL == DlInit /\ [][DlNext]_vars

\* the percentages of the download progress frames thread i has sent, in order
DownloadPercents(i) ==
    LET frames == SelectSeq(out, LAMBDA e : /\ e.part = "data" /\ e.w = i
                                            /\ e.msg.status = "progress"
                                            /\ e.msg.phase = "download")
    IN  [k \in 1..Len(frames) |-> frames[k].msg.percent]

(***************************************************************************)
(* C13: for a download with a declared total > 0 the percentages of its    *)
(* progress frames never decrease, each lies in 0..100, and none appears   *)
(* twice.                                                                  *)
(***************************************************************************)
C13_DownloadPercents ==
    \A i \in Threads :
        thr[i].total > 0 =>
            LET ps == DownloadPercents(i)
            IN  /\ \A k \in 1..Len(ps) : ps[k] \in 0..100
                /\ \A a, b \in 1..Len(ps) : a < b => ps[a] < ps[b]

(***************************************************************************)
(* The frames of one task, in the order sent.                              *)
(***************************************************************************)
TaskFrames(i) ==
    LET frames == SelectSeq(out, LAMBDA e : e.part = "data" /\ e.w = i)
    IN  [k \in 1..Len(frames) |-> frames[k].msg]

\* the stage of the pipeline a frame belongs to: 1 the start log, 2 download
\* progress, 3 the download-done log, 4 extract progress, 5 complete
Stage(msg) ==
    CASE msg.status = "log" /\ msg.text = "start_download" -> 1
      [] msg.status = "progress" /\ msg.phase = "download" -> 2
      [] msg.status = "log" /\ msg.text = "download_done" -> 3
      [] msg.status = "progress" /\ msg.phase = "extract" -> 4
      [] msg.status = "complete" -> 5
      [] OTHER -> 0

StageCount(fr, n) == Cardinality({k \in 1..Len(fr) : Stage(fr[k]) = n})

\* thread i has sent its complete frame
Completed(i) == thr[i].fate = "complete" /\ PastPipeline(i)

\* the order every completed task keeps: start log, download progress,
\* download-done log, extract progress, complete with the resolved path last
InOrder(i) ==
    LET fr == TaskFrames(i)
    IN  /\ \A a, b \in 1..Len(fr) : a < b => Stage(fr[a]) <= Stage(fr[b])
        /\ \A k \in 1..Len(fr) : Stage(fr[k]) # 0
        /\ StageCount(fr, 1) = 1 /\ StageCount(fr, 3) = 1 /\ StageCount(fr, 5) = 1
        /\ fr[Len(fr)].path = resolve_target_dir(thr[i].message).p
        /\ \A k \in 1..Len(fr) :
              (Stage(fr[k]) = 4 /\ Stage(fr[k + 1]) = 5) => fr[k].percent = 100

(***************************************************************************)
(* C14, as stated: every task that completed has sent the start log, one   *)
(* or more download progress frames, the download-done log, one or more    *)
(* extract progress frames the last of them 100, and then its one complete *)
(* frame with the resolved target path; nothing follows the complete       *)
(* frame.                                                                  *)
(***************************************************************************)
C14_FrameOrder ==
    \A i \in Threads :
        Completed(i) =>
            /\ InOrder(i)
            /\ StageCount(TaskFrames(i), 2) >= 1
            /\ StageCount(TaskFrames(i), 4) >= 1

(***************************************************************************)
(* C14, amended: the order holds for every completed task; download        *)
(* progress frames are one or more when the response declared its length,  *)
(* extract progress frames one or more when the archive has a member.      *)
(***************************************************************************)
C14_FrameOrderKnown ==
    \A i \in Threads :
        Completed(i) =>
            /\ InOrder(i)
            /\ thr[i].total > 0 => StageCount(TaskFrames(i), 2) >= 1
            /\ Server(DictGet(thr[i].message.m, K_downloadUrl)).members # <<>>
                  => StageCount(TaskFrames(i), 4) >= 1

\* a task of declared length and two members has completed: seven frames
C14_Witness ==
    /\ Completed(1) /\ thr[1].pc = "dead" /\ thr[1].total > 0
    /\ Len(TaskFrames(1)) = 7
    /\ StageCount(TaskFrames(1), 2) = 2 /\ StageCount(TaskFrames(1), 4) = 2

\* the archive thread i downloads has no entries
EmptyArchive(i) ==
    /\ thr[i].pc # "none"
    /\ Server(DictGet(thr[i].message.m, K_downloadUrl)).reachable
    /\ Server(DictGet(thr[i].message.m, K_downloadUrl)).members = <<>>

\* thread i has left extract_with_progress
PastExtract(i) ==
    /\ thr[i].downloaded_ok
    /\ thr[i].pc \notin {"clean", "ex_open", "ex_check", "ex_member"}
    /\ thr[i].pc \in {"send1", "send2"} => pend[i].ret \notin {"ex_open", "ex_check"}

(***************************************************************************)
(* C15: a task whose archive has no entries sends no extract progress      *)
(* frame, and once its extraction is over it ends complete, whether or not *)
(* the cancellation event was set meanwhile: its terminal frame is one     *)
(* complete frame, never canceled or error.                                *)
(***************************************************************************)
C15_EmptyArchiveCompletes ==
    \A i \in Threads :
        EmptyArchive(i) =>
            /\ StageCount(TaskFrames(i), 4) = 0
            /\ PastExtract(i) =>
                  /\ thr[i].fate = "complete"
                  /\ FramesOf(i, {"canceled", "error"}) = {}
                  /\ Cardinality(FramesOf(i, {"complete"})) <= 1
                  /\ PastPipeline(i) => Cardinality(FramesOf(i, {"complete"})) = 1

\* the event was set after the download of an empty archive had ended and
\* before its extraction began, and the task has sent its complete frame all
\* the same
C15_Witness ==
    /\ EmptyArchive(1) /\ cancel_event /\ ~thr[1].cancel_early
    /\ \E a, b \in 1..Len(out) :
          /\ a < b
          /\ out[a].msg.text = "cancel_sent"
          /\ out[b].w = 1 /\ out[b].msg.text = "download_done"
    /\ thr[1].pc = "rmtree" /\ thr[1].fate = "complete"
    /\ Cardinality(FramesOf(1, {"complete"})) = 1

(***************************************************************************)
(* C16: the temporary directory of a task is dealt with only after the     *)
(* task's terminal frame (complete, canceled or error) is out, and in each *)
(* of the three outcomes; when its removal fails the task has that one     *)
(* terminal frame as its last frame all the same, the step of the removal  *)
(* writes no frame and changes no outcome, and the thread goes on to clear *)
(* the slot: a thread that has ended is never left in the slot.            *)
(***************************************************************************)
C16_TempRemovalSwallowed ==
    /\ [](\A i \in Threads :
            /\ thr[i].temp \in {"removed", "left"} =>
                  /\ thr[i].fate \in TerminalStatus
                  /\ FramesOf(i, TerminalStatus) = FramesOf(i, {thr[i].fate})
                  /\ Cardinality(FramesOf(i, TerminalStatus)) = 1
                  /\ TaskFrames(i)[Len(TaskFrames(i))].status = thr[i].fate
            /\ (thr[i].temp = "made" /\ thr[i].fate \in TerminalStatus)
                  => ~PastPipeline(i) \/ thr[i].pc = "rmtree"
            /\ thr[i].pc = "dead" => update_thread # i)
    /\ [][\A i \in Threads :
            (thr[i].pc = "rmtree" /\ thr'[i].pc # "rmtree")
                => /\ thr'[i].pc = "clear_lock"
                   /\ thr'[i].fate = thr[i].fate
                   /\ out' = out /\ pend' = pend]_vars

\* the removal failed after a canceled run; the thread has ended, the slot is
\* free, and the canceled frame is the task's only terminal frame
C16_Witness ==
    /\ thr[1].temp = "left" /\ thr[1].fate = "canceled" /\ thr[1].pc = "dead"
    /\ update_thread = 0
    /\ Cardinality(FramesOf(1, TerminalStatus)) = 1

(***************************************************************************)
(* The specification with main() scheduled and writes on stdout            *)
(* completing: the steps of main() that handle a cancel_update are taken   *)
(* when they can be, and a thread inside send_message finishes its write   *)
(* and leaves send_lock.  Nothing is assumed about the progress of the     *)
(* background task otherwise: it may stay where it is for ever.            *)
(***************************************************************************)
MainFair ==
    /\ WF_vars(CancelUpdate)
    /\ WF_vars(MainSend1)
    /\ WF_vars(MainSend2)
    /\ \A i \in Threads : WF_vars(BgSend2(i))

SpecMainFair == Init /\ [][Next]_vars /\ MainFair

\* main() is handling the cancel_update it read
Canceling ==
    /\ op >= 1 /\ ops[op] = "cancel_update"
    /\ mainpc \in {"dispatch", "send1", "send2"}

(***************************************************************************)
(* C17: a cancel_update that is dispatched leads to its acknowledgement    *)
(* log frame, exactly one, with the cancellation event set, even if the    *)
(* running task never takes another step of its pipeline; handling it      *)
(* leaves every thread where it is.  The steps of download and extraction  *)
(* are never steps of main(): they leave main() and its input as they      *)
(* are.                                                                    *)
(***************************************************************************)
C17_CancelFireAndForget ==
    /\ [](/\ (Canceling /\ mainpc # "dispatch") => cancel_event
          /\ \A w \in 1..op :
                ops[w] = "cancel_update" =>
                    /\ FramesOf(w, {"log"}) = FramesOf(w, {"log", "error", "progress",
                                                           "complete", "canceled",
                                                           "check_install_dir"})
                    /\ Cardinality(FramesOf(w, {"log"})) <= 1
                    /\ (w < op \/ mainpc \in {"read", "exited", "crashed"})
                          => Cardinality(FramesOf(w, {"log"})) = 1)
    /\ [][/\ (Canceling /\ mainpc' # mainpc)
               => \A i \in Threads : thr'[i].pc = thr[i].pc /\ thr'[i].fate = thr[i].fate
          /\ (\E i \in Threads : \/ thr'[i].downloaded # thr[i].downloaded
                                 \/ thr'[i].index # thr[i].index
                                 \/ fs' # fs)
               => UNCHANGED <<mainpc, message, op, stdin>>]_vars
    /\ \A w \in 1..MaxCmds :
          (op = w /\ Canceling)
              ~> (mainpc = "read" /\ op = w /\ Cardinality(FramesOf(w, {"log"})) = 1)

\* the cancel_update is answered and main() is back at its read while the
\* task, in the middle of its download, has not yet looked at the event
C17_Witness ==
    /\ op = 2 /\ ops[2] = "cancel_update" /\ mainpc = "read"
    /\ Cardinality(FramesOf(2, {"log"})) = 1
    /\ cancel_event /\ thr[1].pc = "dl_read" /\ thr[1].fate = "" /\ thr[1].downloaded > 0

(***************************************************************************)
(* C18: whenever a thread is executing handle_start_update the slot        *)
(* update_thread refers to that thread, and the clear of line 221 is made  *)
(* only by the thread the slot refers to: it never clears the slot of a    *)
(* task accepted later.                                                    *)
(***************************************************************************)
C18_SlotIsRunningTask ==
    /\ [](\A i \in Threads : InPipeline(i) => update_thread = i)
    /\ [][\A i \in Threads :
            (thr[i].pc = "clear" /\ thr'[i].pc = "dead") => update_thread = i]_vars

\* the first task has cleared the slot and ended, a second one was accepted
\* and is downloading: the slot is the second task's
C18_Witness ==
    /\ thr[1].pc = "dead" /\ thr[1].fate \in TerminalStatus
    /\ InPipeline(2) /\ thr[2].pc = "dl_read" /\ update_thread = 2

(***************************************************************************)
(* A scripted session: start_update, cancel_update, start_update.  The     *)
(* cancel_update meets the first task running, or finds the process idle   *)
(* when the first task has already ended; the second start_update is       *)
(* accepted once the first thread is dead.                                 *)
(***************************************************************************)
Script ==
    << StartCmd(URL_good), JObj(<< <<K_cmd, JStr(S_cancel_update)>> >>), StartCmd(URL_good) >>

ScriptFrames == [k \in 1..Len(Script) |-> FrameBytes(Script[k])]

ScriptSend ==
    /\ HostTurn /\ host_writes < Len(Script)
    /\ stdin' = stdin \o ScriptFrames[host_writes + 1]
    /\ host_writes' = host_writes + 1
    /\ UNCHANGED <<stdin_closed, mainpc, message, op, ops, update_lock, send_lock,
                   cancel_event, update_thread, thr, pend, out, fs>>

ScriptNext ==
    \/ ScriptSend
    \/ ReadMessage
    \/ StartUpdateLock
    \/ StartUpdateReject
    \/ StartUpdateAccept
    \/ CancelUpdate
    \/ MainSend1
    \/ MainSend2
    \/ \E i \in Threads :
          \/ BgBegin(i)
          \/ BgOpen(i)
          \/ BgDlCheck(i)
          \/ BgDlRead(i)
          \/ BgClean(i)
          \/ BgExOpen(i)
          \/ BgExCheck(i)
          \/ BgExMember(i)
          \/ BgComplete(i)
          \/ BgSend1(i)
          \/ BgSend2(i)
          \/ BgRmtree(i)
          \/ BgClearLock(i)
          \/ BgClear(i)

SpecScript == Init /\ [][ScriptNext]_vars

\* main() has executed cancel_event.set() for a cancel_update read after the
\* start_update that started thread i
CancelProcessedAfter(i) ==
    \E w \in (i + 1)..op :
        /\ ops[w] = "cancel_update"
        /\ (w < op \/ mainpc # "dispatch")

\* C19: an accepted task ends canceled only if a cancel_update was processed
\* after its acceptance, and the step that accepts a start_update leaves the
\* cancellation event cleared; so a cancel_update processed before the
\* acceptance (while idle or aimed at an earlier task) never cancels the task.
C19_StaleCancelIgnored ==
    /\ [](\A i \in Threads : thr[i].fate = "canceled" => CancelProcessedAfter(i))
    /\ [][\A i \in Threads :
            (thr[i].pc = "none" /\ thr'[i].pc = "start") => ~cancel_event']_vars

\* the first task was canceled, and the task accepted after that cancel_update
\* ran to completion
C19_Witness ==
    /\ ops = <<"start_update", "cancel_update", "start_update">>
    /\ thr[1].fate = "canceled"
    /\ thr[3].pc = "dead" /\ thr[3].fate = "complete"

(***************************************************************************)
(* The two locks.  0 stands for the main thread.                           *)
(***************************************************************************)
Procs == {0} \cup Threads

HoldsSend(p) == send_lock = LockedBy(p)

HoldsSlot(p) == update_lock = LockedBy(p)

\* p is at `with send_lock` (line 33)
WantsSend(p) == IF p = 0 THEN mainpc = "send1" ELSE thr[p].pc = "send1"

\* p is at `with update_lock` (line 233 in main, line 220 in a thread)
WantsSlot(p) ==
    IF p = 0 THEN mainpc = "dispatch" /\ CmdName(message) = "start_update"
    ELSE thr[p].pc = "clear_lock"

\* p waits for a lock that q holds
WaitsFor(p, q) ==
    \/ WantsSend(p) /\ HoldsSend(q)
    \/ WantsSlot(p) /\ HoldsSlot(q)

\* C20: the two locks never deadlock.  While the process runs: no two threads
\* wait for each other's lock; the main thread is at or inside send_message
\* with the task-slot lock held only on the rejection path; a background
\* thread that requests or holds the task-slot lock does not hold the send
\* lock; and whoever holds the send lock is past every lock request.
C20_NoLockCycle ==
    ProcessAlive =>
        /\ \A p, q \in Procs : ~(p # q /\ WaitsFor(p, q) /\ WaitsFor(q, p))
        /\ (HoldsSlot(0) /\ (WantsSend(0) \/ HoldsSend(0))) => Rejecting
        /\ \A i \in Threads : (WantsSlot(i) \/ HoldsSlot(i)) => ~HoldsSend(i)
        /\ \A p \in Procs : HoldsSend(p) => ~(WantsSend(p) \/ WantsSlot(p))

\* the main thread, holding the task-slot lock on the rejection path, is at
\* `with send_lock` while the running thread waits for the task-slot lock
C20_Witness ==
    /\ ProcessAlive
    /\ HoldsSlot(0) /\ WantsSend(0)
    /\ WantsSlot(1) /\ WaitsFor(1, 0)

=============================================================================
